---- MODULE Spec2Model ----
(***************************************************************************)
(* rubrik.py: a polling monitor.  The scheduler loop of __main__ calls     *)
(* generate_json(monitor) once per interval.  A cycle logs in when no      *)
(* token is held, issues nine metric queries in a fixed order, appends one *)
(* sample to each of four series, trims them to MAX_DATAPOINTS and         *)
(* publishes the serialized data in monitor.json; an exception inside the  *)
(* try block publishes an error object and resets token and session.       *)
(***************************************************************************)
EXTENDS Integers, Sequences, FiniteSets, TLC

\* ------------------------------------------------------------------ bounds
MaxCap == 2        \* MAX_DATAPOINTS ranges over 1..MaxCap
MaxCycles == 3     \* the loop of __main__ is followed for MaxCycles iterations
MaxNodes == 1      \* the node list of a query-6 response has at most MaxNodes nodes
MaxListed == 3     \* node lists of up to MaxListed nodes when the node loop is run alone
MaxHi == 5         \* whole units 0..MaxHi of a byte count when a conversion is run alone
MaxLo == 2         \* ... and up to MaxLo bytes above a whole unit or below the next

\* ------------------------------------------------------- program constants
GB == 1000000000   \* (1000 * 1000 * 1000)
MB == 1048576      \* (1024 * 1024)
NQueries == 9      \* the nine session.get calls of generate_json

\* an attribute that is None is the empty sequence, one that holds x is <<x>>
None == <<>>
\* requests.Session()
Session == <<"Session">>
\* the token of a successful login is fresh: it is named by the iteration
\* of the loop that obtained it
Token(n) == <<n>>

Statuses == {"OK", "DEGRADED", "FAILED"}

VARIABLES
    json,            \* rubrik_monitor.json (line 50)
    session,         \* rubrik_monitor.session (line 51)
    token,           \* rubrik_monitor.token (line 53)
    data,            \* rubrik_monitor.data, a RubrikData (line 52)
    MAX_DATAPOINTS,  \* the module setting (line 20), fixed at start
    pc,              \* position of the loop of __main__ and of generate_json
    reading,         \* what the appliance reports during the current cycle
    locals,          \* locals of generate_json filled by queries 6..9
    calls,           \* remote calls issued in the current cycle, with results
    pre,             \* rubrik_monitor.data as it was when the cycle started
    hist,            \* samples appended by successful cycles so far, oldest first
    ncycles          \* iterations of the loop of __main__ started so far

vars == <<json, session, token, data, MAX_DATAPOINTS, pc, reading, locals,
          calls, pre, hist, ncycles>>

\* ------------------------------------------------------------- data model
\* RubrikData.__init__
RubrikData ==
    [iops |-> <<>>, throughput |-> <<>>, ingest |-> <<>>, streams |-> <<>>,
     success_count |-> 0, failure_count |-> 0, running_count |-> 0,
     total |-> 0, used |-> 0, available |-> 0, avg_growth_per_day |-> 0,
     ingested_yesterday |-> 0, ingested_today |-> 0, node_status |-> "ERR"]

ScalarFields ==
    {"success_count", "failure_count", "running_count", "total", "available",
     "used", "avg_growth_per_day", "ingested_yesterday", "ingested_today",
     "node_status"}

SeriesFields == {"iops", "throughput", "ingest", "streams"}

Scalars(d) == [f \in ScalarFields |-> d[f]]
Series(d) == [f \in SeriesFields |-> d[f]]

\* the three values rubrik_monitor.json takes
EmptyJson == [kind |-> "empty"]                       \* self.json = ""
LoginError == [kind |-> "error", error |-> "Error getting login token from Rubrik"]
DataError == [kind |-> "error", error |-> "Error getting data from Rubrik"]
\* json.dumps({"stats": rubrik_monitor.data.__dict__}): a copy of the fields
\* as they are when dumps runs
StatsJson(d) == [kind |-> "stats", stats |-> d]

\* ------------------------------------------------------------ conversions
RECURSIVE Pow2(_)
Pow2(n) == IF n = 0 THEN 1 ELSE 2 * Pow2(n - 1)

\* the exponent e with 2^e <= k < 2^(e + 1), for k >= 1
RECURSIVE FloorLog2(_)
FloorLog2(k) == IF k < 2 THEN 0 ELSE 1 + FloorLog2(k \div 2)

\* a conversion that divides in the integers
FloorDiv(hi, lo, d) == hi

\* int(x / d) for the integer x = hi * d + lo with 0 <= lo < d.  In Python 3
\* x / d is the float nearest to the quotient hi + lo / d, and int()
\* truncates that float.  With 2^e <= hi < 2^(e + 1) the floats around the
\* quotient are 2^(e - 52) apart, so the quotient is rounded up to hi + 1
\* when it is nearer than 2^(e - 53) to it, that is when
\* (d - lo) * 2^(53 - e) < d, and the truncation gives hi otherwise (for
\* the two divisors and hi < 2^31 the quotient is never halfway).  No
\* product here exceeds 2^31: for 53 - e > 30 the condition is false.
IntOfTrueDiv(hi, lo, d) ==
    IF hi = 0 THEN 0
    ELSE LET shift == 53 - FloorLog2(hi)
         IN  IF shift <= 30 /\ d - lo <= (d - 1) \div Pow2(shift)
             THEN hi + 1 ELSE hi

\* int(x / (1000 * 1000 * 1000)) and int(x / (1024 * 1024))
ToGB(x) == IntOfTrueDiv(x \div GB, x % GB, GB)
ToMB(x) == IntOfTrueDiv(x \div MB, x % MB, MB)

\* -------------------------------------------------------- response bodies
SeqsUpTo(S, n) == UNION {[1..m -> S] : m \in 0..n}
NodeBodies ==
    {[total |-> t, data |-> d] : t \in 0..(MaxNodes + 1), d \in SeqsUpTo(Statuses, MaxNodes)}

\* a JSON value that is a number, and JSON null
JNum(x) == [num |-> x]
JNull == [null |-> TRUE]
IsNum(j) == "num" \in DOMAIN j

\* The appliance's counters move between iterations: in the n-th iteration
\* of the loop its reading is n, and every field of every well-formed body
\* is derived from the reading, so that a value tells the iteration it was
\* read in.  Byte counts stay below 2^31.
Bytes(v) == (v % 3) * GB
Rate(v) == v * MB

Body1(v) == [successCount |-> v, failureCount |-> v + 1, runningCount |-> v + 2]
Body2(v) == [total |-> Bytes(v) + 7 * MB, available |-> Bytes(v) + 5]
\* the API returns this value as a string, which int() parses
Body3(v) == [value |-> Bytes(v) + (MB - 1)]
Body4(v) == [bytes |-> Bytes(v) + 1]
Body5(v) == <<[stat |-> 0], [stat |-> Bytes(v + 1) + 11], [stat |-> Bytes(v) + 13]>>
Body7(v) == [count |-> v + 3]
Body8(v) ==
    [iops |-> [readsPerSecond |-> <<[stat |-> JNum(v + 4)]>>,
               writesPerSecond |-> <<[stat |-> JNum(v + 5)]>>],
     ioThroughput |-> [readBytePerSecond |-> <<[stat |-> Rate(v) + (MB - 1)]>>,
                       writeBytePerSecond |-> <<[stat |-> Rate(v) + 1]>>]]
Body9(v) == <<[stat |-> Rate(v + 1) + 2]>>

\* a loop in which FAILED is never overwritten by DEGRADED
RECURSIVE NodeLoopBySeverity(_, _, _)
NodeLoopBySeverity(status_json, x, system_status) ==
    IF x >= status_json.total THEN system_status
    ELSE NodeLoopBySeverity(status_json, x + 1,
                  IF status_json.data[x + 1].status # "OK" /\ system_status # "FAILED"
                  THEN status_json.data[x + 1].status ELSE system_status)

\* a loop that keeps the first non-OK status it meets
RECURSIVE NodeLoopFirstWins(_, _, _)
NodeLoopFirstWins(status_json, x, system_status) ==
    IF x >= status_json.total THEN system_status
    ELSE NodeLoopFirstWins(status_json, x + 1,
                  IF status_json.data[x + 1].status # "OK" /\ system_status = "OK"
                  THEN status_json.data[x + 1].status ELSE system_status)

\* lines 165-168: the loop over range(0, status_json["total"])
RECURSIVE NodeLoop(_, _, _)
NodeLoop(status_json, x, system_status) ==
    IF x >= status_json.total THEN system_status
    ELSE NodeLoop(status_json, x + 1,
                  IF status_json.data[x + 1].status # "OK"
                  THEN status_json.data[x + 1].status ELSE system_status)

NodeJson(nb) == [total |-> nb.total, data |-> [i \in DOMAIN nb.data |-> [status |-> nb.data[i]]]]

\* status_json["data"][x] raises IndexError when total exceeds the list
NodeLoopRaises(status_json) == status_json.total > Len(status_json.data)

\* a query-8 body whose IOPS stats are null: every lookup of lines 184-190
\* succeeds, and line 205 cannot add the two values
Body8Null(v) ==
    [Body8(v) EXCEPT !.iops.readsPerSecond = <<[stat |-> JNull]>>,
                     !.iops.writesPerSecond = <<[stat |-> JNull]>>]

\* ---------------------------------------------------------------- parsing
\* The assignments to rubrik_monitor.data that the parsing of query k makes,
\* in source order, as <<field, value>> pairs (queries 7..9 assign locals).
Assignments(k, body) ==
    CASE k = 1 -> <<<<"success_count", body.successCount>>,
                    <<"failure_count", body.failureCount>>,
                    <<"running_count", body.runningCount>>>>
      [] k = 2 -> <<<<"total", ToGB(body.total)>>,
                    <<"available", ToGB(body.available)>>>>
      [] k = 3 -> <<<<"used", ToGB(body.value)>>>>
      [] k = 4 -> <<<<"avg_growth_per_day", ToGB(body.bytes)>>>>
      [] k = 5 -> <<<<"ingested_yesterday", ToGB(body[Len(body) - 1].stat)>>,
                    <<"ingested_today", ToGB(body[Len(body)].stat)>>>>
      [] k = 6 -> <<<<"node_status", NodeLoop(body, 0, "OK")>>>>
      [] OTHER -> <<>>

\* how many assignments to rubrik_monitor.data the parsing of query k makes
NAssign(k) == CASE k = 1 -> 3 [] k = 2 -> 2 [] k = 5 -> 2
                [] k \in {3, 4, 6} -> 1 [] OTHER -> 0

RECURSIVE Assign(_, _, _)
Assign(d, as, n) ==
    IF n = 0 THEN d
    ELSE [Assign(d, as, n - 1) EXCEPT ![as[n][1]] = as[n][2]]

\* a parsing that puts the stream count of query 7 into the series at once
ParseAppendingEarly(k, d, body, n) ==
    IF k = 7 THEN [d EXCEPT !.streams = Append(@, body.count)]
    ELSE Assign(d, Assignments(k, body), n)

\* rubrik_monitor.data after the first n assignments of query k's parsing
Parse(k, d, body, n) == Assign(d, Assignments(k, body), n)

\* the locals that the parsing of query k assigns
ParseLocals(k, body) ==
    CASE k = 6 -> ("system_status" :> NodeLoop(body, 0, "OK"))
      [] k = 7 -> ("streams" :> body.count)
      [] k = 8 -> ("iops_reads" :> body.iops.readsPerSecond[1].stat)
                  @@ ("iops_writes" :> body.iops.writesPerSecond[1].stat)
                  @@ ("throughput_reads" :> ToMB(body.ioThroughput.readBytePerSecond[1].stat))
                  @@ ("throughput_writes" :> ToMB(body.ioThroughput.writeBytePerSecond[1].stat))
      [] k = 9 -> ("ingest" :> ToMB(body[1].stat))
      [] OTHER -> <<>>

\* the bodies query k can return with status 200 when the reading is v:
\* any node list with any total for query 6, numeric or null IOPS stats
\* for query 8
Bodies(k, v) ==
    CASE k = 1 -> {Body1(v)} [] k = 2 -> {Body2(v)} [] k = 3 -> {Body3(v)}
      [] k = 4 -> {Body4(v)} [] k = 5 -> {Body5(v)}
      [] k = 6 -> {NodeJson(nb) : nb \in NodeBodies}
      [] k = 7 -> {Body7(v)}
      [] k = 8 -> {Body8(v), Body8Null(v)}
      [] OTHER -> {Body9(v)}

\* ------------------------------------------------------------------ state
NoLocals == [n \in {} |-> 0]

\* the nine endpoints in the order generate_json queries them
Endpoints ==
    <<"report/backup_jobs/summary", "stats/system_storage",
      "stats/snapshot_storage/physical", "stats/average_storage_growth_per_day",
      "stats/physical_ingest_per_day/time_series", "cluster/me/node",
      "stats/streams/count", "cluster/me/io_stats", "stats/physical_ingest/time_series">>

QueryPc == <<"q1", "q2", "q3", "q4", "q5", "q6", "q7", "q8", "q9">>
\* a sequence that leaves out the snapshot storage query
AfterQuerySkipping(k) ==
    IF k = 2 THEN QueryPc[4] ELSE IF k < NQueries THEN QueryPc[k + 1] ELSE "append"

\* where generate_json goes after query k succeeded
AfterQuery(k) == IF k < NQueries THEN QueryPc[k + 1] ELSE "append"

\* MonitorJSON.__init__ (line 258), before the first iteration of the loop
Init ==
    /\ json = EmptyJson
    /\ session = None
    /\ data = RubrikData
    /\ token = None
    /\ MAX_DATAPOINTS \in 1..MaxCap
    /\ pc = "idle"
    /\ reading = 0
    /\ locals = NoLocals
    /\ calls = <<>>
    /\ pre = RubrikData
    /\ hist = <<>>
    /\ ncycles = 0

\* a remote call as the appliance sees it: the endpoint, the token presented
\* as HTTPBasicAuth(token, ''), and what came back
Call(k, result) == [call |-> Endpoints[k], auth |-> token, result |-> result]

\* ---------------------------------------------------------------- actions
\* a generate_json that logs in on every call
StartCycleAlwaysLogin ==
    /\ pc = "idle"
    /\ ncycles < MaxCycles
    /\ ncycles' = ncycles + 1
    /\ reading' = ncycles + 1
    /\ pc' = "login"
    /\ locals' = NoLocals
    /\ calls' = <<>>
    /\ pre' = data
    /\ UNCHANGED <<json, session, token, data, MAX_DATAPOINTS, hist>>

\* lines 259-261 and 99-100: the loop calls generate_json, which reads the
\* cached token and goes to login when there is none
StartCycle ==
    /\ pc = "idle"
    /\ ncycles < MaxCycles
    /\ ncycles' = ncycles + 1
    /\ reading' = ncycles + 1
    /\ pc' = IF token = None THEN "login" ELSE QueryPc[1]
    /\ locals' = NoLocals
    /\ calls' = <<>>
    /\ pre' = data
    /\ UNCHANGED <<json, session, token, data, MAX_DATAPOINTS, hist>>

\* what the login call can do: return a token, raise one of the three caught
\* transport exceptions, return a body with a message and no token, return a
\* body json.loads cannot decode, return a body with neither token nor message
LoginOutcomes == {"token", "transport", "message", "undecodable", "neither"}

\* line 103-104: no token, publish the login error and return
LoginFailed ==
    /\ token' = None
    /\ json' = LoginError
    /\ pc' = "idle"

\* an exception that leaves get_rubrik_token and generate_json (line 101 is
\* outside the try block) and ends the while loop of __main__
Uncaught ==
    /\ pc' = "crashed"
    /\ UNCHANGED <<json, token>>

\* get_rubrik_token, called from line 101
Login(o) ==
    /\ pc = "login"
    /\ session' = Session
    /\ calls' = Append(calls, [call |-> "login", auth |-> token, result |-> o])
    /\ CASE o = "token" ->
              /\ token' = Token(ncycles)
              /\ pc' = QueryPc[1]
              /\ UNCHANGED json
         [] o \in {"transport", "message"} -> LoginFailed
         [] OTHER -> Uncaught
    /\ UNCHANGED <<data, MAX_DATAPOINTS, reading, locals, pre, hist, ncycles>>

\* an except block that forgets to reset the login
ExceptHandlerKeepingToken ==
    /\ json' = DataError
    /\ UNCHANGED <<token, session>>
    /\ pc' = "idle"

\* an except block that publishes what was gathered so far
ExceptHandlerPublishingData ==
    /\ json' = StatsJson(data)
    /\ token' = None
    /\ session' = None
    /\ pc' = "idle"

\* an except block that resets the session and keeps the token
ExceptHandlerResettingSessionOnly ==
    /\ json' = DataError
    /\ UNCHANGED token
    /\ session' = None
    /\ pc' = "idle"

\* lines 226-230: the except block
ExceptHandler ==
    /\ json' = DataError
    /\ token' = None
    /\ session' = None
    /\ pc' = "idle"

\* what a metric query can do: return 200 with a well-formed body, return
\* another status, raise in session.get, or return 200 with a body whose
\* parsing raises after n assignments to rubrik_monitor.data
QueryOutcomes(k) ==
    {[kind |-> "ok", n |-> NAssign(k)], [kind |-> "status", n |-> 0],
     [kind |-> "exception", n |-> 0]}
    \cup {[kind |-> "malformed", n |-> i] : i \in 0..(NAssign(k) - 1)}
    \cup (IF NAssign(k) = 0 THEN {[kind |-> "malformed", n |-> 0]} ELSE {})

\* whether the parsing of query k's well-formed body raises all the same
ParseRaises(k, body) == k = 6 /\ NodeLoopRaises(body)

\* an outcome "ok" is a body whose parsing completes
Possible(k, o, body) == (o.kind = "ok") => ~ParseRaises(k, body)

\* the k-th session.get of generate_json with its status check and parsing
Query(k, o, body) ==
    /\ pc = QueryPc[k]
    /\ Possible(k, o, body)
    /\ calls' = Append(calls, Call(k, o.kind))
    /\ IF o.kind \in {"status", "exception"} \/ ParseRaises(k, body)
       THEN /\ ExceptHandler
            /\ UNCHANGED <<data, locals>>
       ELSE /\ data' = Parse(k, data, body, o.n)
            /\ IF o.kind = "ok"
               THEN /\ locals' = ParseLocals(k, body) @@ locals
                    /\ pc' = AfterQuery(k)
                    /\ UNCHANGED <<json, token, session>>
               ELSE /\ ExceptHandler
                    /\ UNCHANGED locals
    /\ UNCHANGED <<MAX_DATAPOINTS, reading, pre, hist, ncycles>>

\* a sample that leaves the write IOPS out
SampleReadsOnly(l) ==
    [iops |-> l.iops_reads.num,
     throughput |-> l.throughput_reads + l.throughput_writes,
     ingest |-> l.ingest,
     streams |-> l.streams]

\* the sample of lines 205-208
Sample(l) ==
    [iops |-> l.iops_reads.num + l.iops_writes.num,
     throughput |-> l.throughput_reads + l.throughput_writes,
     ingest |-> l.ingest,
     streams |-> l.streams]

AppendAll(d, smp) == [f \in DOMAIN d |-> IF f \in SeriesFields THEN Append(d[f], smp[f]) ELSE d[f]]

\* lines 205-208; iops_reads + iops_writes raises before the first append
\* when the two are not numbers
AppendSamples ==
    /\ pc = "append"
    /\ IF IsNum(locals.iops_reads) /\ IsNum(locals.iops_writes)
       THEN /\ data' = AppendAll(data, Sample(locals))
            /\ hist' = Append(hist, Sample(locals))
            /\ pc' = "trim"
            /\ UNCHANGED <<json, token, session>>
       ELSE /\ ExceptHandler
            /\ UNCHANGED <<data, hist>>
    /\ UNCHANGED <<MAX_DATAPOINTS, reading, locals, calls, pre, ncycles>>

\* a trim that deletes the newest item
TrimDroppingNewest(d, cap) ==
    IF Len(d.iops) > cap
    THEN [f \in DOMAIN d |->
            IF f \in SeriesFields THEN SubSeq(d[f], 1, Len(d[f]) - 1) ELSE d[f]]
    ELSE d

\* a trim that tests the length against the cap plus one
TrimOffByOne(d, cap) ==
    IF Len(d.iops) > cap + 1
    THEN [f \in DOMAIN d |-> IF f \in SeriesFields THEN Tail(d[f]) ELSE d[f]]
    ELSE d

\* a trim that deletes the oldest item of iops only
TrimOnlyIops(d, cap) ==
    IF Len(d.iops) > cap THEN [d EXCEPT !.iops = Tail(@)] ELSE d

\* lines 211-215
Trim(d, cap) ==
    IF Len(d.iops) > cap
    THEN [f \in DOMAIN d |-> IF f \in SeriesFields THEN Tail(d[f]) ELSE d[f]]
    ELSE d

TrimSeries ==
    /\ pc = "trim"
    /\ data' = Trim(data, MAX_DATAPOINTS)
    /\ pc' = "publish"
    /\ UNCHANGED <<json, session, token, MAX_DATAPOINTS, reading, locals, calls, pre, hist, ncycles>>

\* lines 218-222, then the return to the loop and its sleep
Publish ==
    /\ pc = "publish"
    /\ json' = StatsJson(data)
    /\ pc' = "idle"
    /\ UNCHANGED <<session, token, data, MAX_DATAPOINTS, reading, locals, calls, pre, hist, ncycles>>

Next ==
    \/ StartCycle
    \/ \E o \in LoginOutcomes : Login(o)
    \/ \E k \in 1..NQueries : \E o \in QueryOutcomes(k) :
          \E body \in Bodies(k, reading) : Query(k, o, body)
    \/ AppendSamples
    \/ TrimSeries
    \/ Publish

Spec == Init /\ [][Next]_vars

\* ----------------------------------------------------------------- claims
Last(s) == s[Len(s)]

\* the call log of a cycle that ended in a query failure: its last call is a
\* metric query that returned another status than 200, raised, or returned a
\* body whose parsing raised
QueryFailed ==
    /\ calls # <<>>
    /\ Last(calls).call # "login"
    /\ Last(calls).result # "ok"

\* the call log of a cycle whose login did not return a token
LoginDidNotSucceed ==
    /\ calls # <<>>
    /\ Last(calls).call = "login"
    /\ Last(calls).result # "token"

\* C1: when a cycle has ended because query k failed, every scalar field of
\* rubrik_monitor.data has the value it had when the cycle started.
C1_NoPartialCommit ==
    (pc = "idle" /\ QueryFailed) => Scalars(data) = Scalars(pre)

\* C2: at the end of every cycle the session and the token are both present
\* or both absent.
C2_SessionAndTokenTogether ==
    (pc = "idle") => ((session = None) <=> (token = None))

\* C3: no outcome of the login call or of a metric query ends the loop: the
\* loop is never left, and a cycle whose last call failed has published an
\* error object.
C3_NoFailureEndsLoop ==
    /\ pc # "crashed"
    /\ (pc = "idle" /\ (QueryFailed \/ LoginDidNotSucceed)) => json.kind = "error"

\* C4: when a cycle has ended because its login or one of its queries failed
\* (also when the failure ended the loop), the four series are exactly as
\* they were when the cycle started.
C4_FailedCycleKeepsSeries ==
    (pc \in {"idle", "crashed"} /\ (QueryFailed \/ LoginDidNotSucceed))
        => Series(data) = Series(pre)

\* a cycle that had a sample of an earlier cycle in its series failed at its
\* last query
C4_Witness ==
    /\ pc = "idle"
    /\ QueryFailed
    /\ Last(calls).call = Endpoints[NQueries]
    /\ Len(pre.iops) >= 1

\* C5: a cycle in which a metric query fails ends with the data error object
\* published and the token cleared, and the cycle after it issues the login
\* call before any metric query.
C5_QueryFailureForcesLogin ==
    /\ (pc = "idle" /\ QueryFailed) => (json = DataError /\ token = None)
    /\ (pc # "idle" /\ json = DataError /\ calls # <<>>) => calls[1].call = "login"

\* the third iteration has logged in again: the first one appended a sample
\* and left a token, the second one started with that token and failed
C5_Witness ==
    /\ ncycles = 3
    /\ json = DataError
    /\ calls = <<[call |-> "login", auth |-> None, result |-> "token"]>>
    /\ Len(data.iops) = 1
    /\ token = Token(3)

\* C6: after a login that returned no token the token is absent, the login
\* error object is published, no metric query was issued in that cycle, and
\* the cycle after it issues the login call first.
C6_FailedLoginPublishesError ==
    /\ (pc \in {"idle", "crashed"} /\ LoginDidNotSucceed)
           => (token = None /\ json = LoginError /\ Len(calls) = 1)
    /\ (pc # "idle" /\ json = LoginError /\ calls # <<>>) => calls[1].call = "login"

\* the samples of hist as one series per field
Column(h, f) == [i \in 1..Len(h) |-> h[i][f]]
Min(a, b) == IF a < b THEN a ELSE b
LastN(s, n) == SubSeq(s, Len(s) - n + 1, Len(s))

\* C7: after N successful cycles, interleaved with any failed ones, each of
\* the four series is the last min(N, MAX_DATAPOINTS) samples of the
\* successful cycles, oldest first.
C7_SeriesAreLastSamples ==
    (pc # "trim") =>
        \A f \in SeriesFields :
            data[f] = LastN(Column(hist, f), Min(Len(hist), MAX_DATAPOINTS))

\* three successful cycles with a cap of two: the first sample was evicted
C7_Witness ==
    /\ pc = "idle"
    /\ Len(hist) = 3
    /\ MAX_DATAPOINTS = 2
    /\ Len(data.iops) = 2

\* every endpoint was queried in this cycle and returned a well-formed body
AllNineSucceeded ==
    \A k \in 1..NQueries :
        \E i \in 1..Len(calls) : calls[i].call = Endpoints[k] /\ calls[i].result = "ok"

\* C8 as stated: each series has length <= MAX_DATAPOINTS in every state,
\* also between the append and the eviction, and a series differs from its
\* value at the start of the cycle only when all nine queries succeeded.
C8_AlwaysWithinCap ==
    /\ \A f \in SeriesFields : Len(data[f]) <= MAX_DATAPOINTS
    /\ (Series(data) # Series(pre)) => AllNineSucceeded

\* C8 amended: each series has length <= MAX_DATAPOINTS outside the window
\* between the append and the eviction, and in every published payload, and
\* at most MAX_DATAPOINTS + 1 inside that window; a series differs from its
\* value at the start of the cycle only when all nine queries succeeded.
C8_WithinCapOutsideWindow ==
    /\ \A f \in SeriesFields :
          /\ Len(data[f]) <= MAX_DATAPOINTS + 1
          /\ (pc # "trim") => Len(data[f]) <= MAX_DATAPOINTS
          /\ (json.kind = "stats") => Len(json.stats[f]) <= MAX_DATAPOINTS
    /\ (Series(data) # Series(pre)) => AllNineSucceeded

\* a full series has just received one more sample and is not yet trimmed
C8_Witness ==
    /\ pc = "trim"
    /\ Len(data.iops) = MAX_DATAPOINTS + 1
    /\ AllNineSucceeded

\* rubrik_monitor.data after the complete parsing of queries 1..k of a cycle
\* whose reading is v (queries 1..5 have one well-formed body each)
RECURSIVE ParsedUpTo(_, _, _)
ParsedUpTo(k, d, v) ==
    IF k = 0 THEN d
    ELSE Parse(k, ParsedUpTo(k - 1, d, v), CHOOSE b \in Bodies(k, v) : TRUE, NAssign(k))

\* the scalar fields a complete cycle with reading v and node status st writes
CycleScalars(v, st) ==
    [Scalars(ParsedUpTo(5, RubrikData, v)) EXCEPT !["node_status"] = st]

\* the sample a complete cycle with reading v appends
CycleSample(v) ==
    Sample(ParseLocals(7, Body7(v)) @@ ParseLocals(8, Body8(v)) @@ ParseLocals(9, Body9(v)))

\* the payload d holds the scalars of the one cycle with reading v, and the
\* newest sample of each of its series is that cycle's
FromCycle(d, v) ==
    /\ \E st \in Statuses : Scalars(d) = CycleScalars(v, st)
    /\ \A f \in SeriesFields : d[f] # <<>> /\ Last(d[f]) = CycleSample(v)[f]

\* the published stats payload is the data of the cycle that has just ended
PublishedByLastCycle ==
    /\ json.stats = data
    /\ FromCycle(json.stats, reading)
    /\ json.stats.node_status = locals.system_status

\* C9 as stated: in every state, from process start on, the published json
\* is an error object or a stats payload whose scalars all come from the one
\* successful cycle that published it.
C9_ErrorOrCompleteStats ==
    /\ json.kind \in {"error", "stats"}
    /\ (json.kind = "stats") => \E v \in 1..ncycles : FromCycle(json.stats, v)
    /\ (json.kind = "stats" /\ pc = "idle") => PublishedByLastCycle

\* C9 amended: in every state the published json is the empty string of
\* MonitorJSON.__init__ (until a cycle publishes), an error object, or a
\* stats payload whose scalars all come from the one successful cycle that
\* published it.
C9_EmptyErrorOrCompleteStats ==
    /\ json.kind \in {"empty", "error", "stats"}
    /\ (json.kind = "error") => json \in {LoginError, DataError}
    /\ (json.kind = "stats") => \E v \in 1..ncycles : FromCycle(json.stats, v)
    /\ (json.kind = "stats" /\ pc = "idle") => PublishedByLastCycle

\* a stats payload of the first cycle is still published while the second
\* cycle, whose first query has rewritten a scalar, is running
C9_Witness ==
    /\ json.kind = "stats"
    /\ pc = "q2"
    /\ ncycles = 2
    /\ data.success_count # json.stats.success_count

\* the metric queries issued so far in this cycle
Queries == SelectSeq(calls, LAMBDA c : c.call # "login")

\* C10: the metric queries of a cycle are issued in the order of Endpoints,
\* and a query that did not succeed is the last one of its cycle.
C10_QueriesInOrder ==
    \A i \in 1..Len(Queries) :
        /\ i <= NQueries
        /\ Queries[i].call = Endpoints[i]
        /\ (Queries[i].result # "ok") => (i = Len(Queries) /\ pc = "idle")

\* the fifth query returned another status than 200 and the cycle is over
C10_Witness ==
    /\ pc = "idle"
    /\ Len(Queries) = 5
    /\ Queries[5].result = "status"
    /\ Queries[4].result = "ok"

\* C11: a cycle issues the login call exactly when no token is held at its
\* start, and only as its first call; a fully successful cycle leaves a
\* token, and a cycle that starts with a token presents that one token, got
\* by an earlier cycle, on all of its queries.
C11_LoginIffNoToken ==
    /\ (calls # <<>>) => ((calls[1].call = "login") <=> (calls[1].auth = None))
    /\ \A i \in 2..Len(calls) : calls[i].call # "login"
    /\ (pc = "idle" /\ json.kind = "stats") => token # None
    /\ \A i \in 1..Len(Queries) :
          /\ Queries[i].auth = Queries[1].auth
          /\ IF calls[1].call = "login"
             THEN Queries[i].auth = Token(ncycles)
             ELSE \E m \in 1..(ncycles - 1) : Queries[i].auth = Token(m)

\* the second cycle ran all nine queries with the token of the first one
\* and without a login call
C11_Witness ==
    /\ pc = "idle"
    /\ ncycles = 2
    /\ Len(calls) = NQueries
    /\ \A i \in 1..Len(calls) : calls[i].call # "login" /\ calls[i].auth = Token(1)
    /\ json.kind = "stats"
    /\ token = Token(1)

\* a cycle all of whose nine queries returned 200 with well-formed bodies
\* (the IOPS stats are numbers) is over
FullySuccessful ==
    /\ pc = "idle"
    /\ AllNineSucceeded
    /\ IsNum(locals.iops_reads)
    /\ IsNum(locals.iops_writes)

\* the scalars of the bodies of reading v, converted: byte counts by the
\* integer quotient by 10^9
ConvertedScalars(v, st) ==
    [success_count |-> Body1(v).successCount,
     failure_count |-> Body1(v).failureCount,
     running_count |-> Body1(v).runningCount,
     total |-> Body2(v).total \div 1000000000,
     available |-> Body2(v).available \div 1000000000,
     used |-> Body3(v).value \div 1000000000,
     avg_growth_per_day |-> Body4(v).bytes \div 1000000000,
     ingested_yesterday |-> Body5(v)[2].stat \div 1000000000,
     ingested_today |-> Body5(v)[3].stat \div 1000000000,
     node_status |-> st]

\* the sample of the bodies of reading v: IOPS summed, throughput converted
\* and summed, ingest rate converted, stream count
ConvertedSample(v) ==
    [iops |-> Body8(v).iops.readsPerSecond[1].stat.num
              + Body8(v).iops.writesPerSecond[1].stat.num,
     throughput |-> (Body8(v).ioThroughput.readBytePerSecond[1].stat \div 1048576)
                    + (Body8(v).ioThroughput.writeBytePerSecond[1].stat \div 1048576),
     ingest |-> Body9(v)[1].stat \div 1048576,
     streams |-> Body7(v).count]

C17_SeriesSameLength ==
    \A f \in SeriesFields : Len(data[f]) = Len(data.iops)

\* two successful cycles with a cap of one, the second of which evicted,
\* then a failed one
C17_Witness ==
    /\ pc = "idle"
    /\ MAX_DATAPOINTS = 1
    /\ Len(hist) = 2
    /\ json = DataError
    /\ Len(data.streams) = 1
    /\ Len(data.throughput) = 1

\* C18: whenever a token is held a session is held; a metric query is
\* issued only with a session and a token, and after the login call of its
\* cycle, if there was one, returned a token.
C18_TokenImpliesSession ==
    /\ (token # None) => (session # None)
    /\ (pc \in {QueryPc[k] : k \in 1..NQueries}) => (token # None /\ session # None)
    /\ \A i \in 1..Len(Queries) : Queries[i].auth # None
    /\ (Queries # <<>> /\ calls[1].call = "login") => calls[1].result = "token"

\* the second cycle has logged in again after the first one failed and is
\* about to issue its first query
C18_Witness ==
    /\ pc = "q1"
    /\ ncycles = 2
    /\ json = DataError
    /\ token = Token(2)
    /\ session = Session

\* C19: a failed cycle (login or query failure) returns to the loop, so that
\* a later cycle can run, and a cycle whose login and nine queries succeed
\* publishes a stats payload whose series are the samples retained before
\* it followed by its own sample.
C19_RecoveryByFreshCycle ==
    /\ (QueryFailed \/ LoginDidNotSucceed) => pc = "idle"
    /\ FullySuccessful =>
          /\ json.kind = "stats"
          /\ \A f \in SeriesFields :
                json.stats[f] =
                    LastN(Append(pre[f], ConvertedSample(reading)[f]),
                          Min(Len(pre[f]) + 1, MAX_DATAPOINTS))

\* ------------------------------------------- the node loop, run on its own
\* the node lists and totals a query-6 response can carry
NodeInputs ==
    {[total |-> t, data |-> d] :
        t \in 0..(MaxListed + 1), d \in SeqsUpTo(Statuses, MaxListed)}

\* generate_json at line 165 of the first iteration: the login and queries
\* 1..5 succeeded, query 6 returned status 200 and line 164 decoded its body
\* into status_json
InitNodes ==
    /\ json = EmptyJson
    /\ session = Session
    /\ token = Token(1)
    /\ data = ParsedUpTo(5, RubrikData, 1)
    /\ MAX_DATAPOINTS \in 1..MaxCap
    /\ pc = "nodes"
    /\ reading = 1
    /\ \E nb \in NodeInputs : locals = ("status_json" :> NodeJson(nb))
    /\ calls = <<[call |-> "login", auth |-> None, result |-> "token"]>>
               \o [k \in 1..6 |-> [call |-> Endpoints[k], auth |-> Token(1), result |-> "ok"]]
    /\ pre = RubrikData
    /\ hist = <<>>
    /\ ncycles = 1

\* lines 165-169, and the except block when status_json["data"][x] raises
NodeStatus ==
    /\ pc = "nodes"
    /\ IF NodeLoopRaises(locals.status_json)
       THEN /\ ExceptHandler
            /\ UNCHANGED <<data, locals>>
       ELSE /\ locals' = ("system_status" :> NodeLoop(locals.status_json, 0, "OK")) @@ locals
            /\ data' = [data EXCEPT !.node_status = NodeLoop(locals.status_json, 0, "OK")]
            /\ pc' = AfterQuery(6)
            /\ UNCHANGED <<json, token, session>>
    /\ UNCHANGED <<MAX_DATAPOINTS, reading, calls, pre, hist, ncycles>>

NextNodes == NodeStatus

SpecNodes == InitNodes /\ [][NextNodes]_vars

\* the statuses of the listed nodes, the response's total, and the positions
\* of the non-OK nodes among the first n listed
Listed == [i \in DOMAIN locals.status_json.data |-> locals.status_json.data[i].status]
Total == locals.status_json.total
NonOk(n) == {i \in 1..n : Listed[i] # "OK"}
MaxOf(S) == CHOOSE m \in S : \A i \in S : i <= m
MinOf(S) == CHOOSE m \in S : \A i \in S : m <= i
NodeLoopDone == pc = AfterQuery(6)

\* C13: for every node list and every total, the node loop completes and
\* its result is "OK" if and only if every listed node reports "OK".
C13_OkIffEveryNodeOk ==
    (pc # "nodes") =>
        /\ NodeLoopDone
        /\ (data.node_status = "OK") <=> (NonOk(Len(Listed)) = {})

\* C14: when the total is the number of listed nodes, the result is "OK"
\* for a list of OK nodes and otherwise the status of the non-OK node latest
\* in the list, whatever the statuses before it: [OK, OK, OK] gives "OK",
\* [OK, DEGRADED, OK] gives "DEGRADED", [FAILED, DEGRADED] gives "DEGRADED".
C14_LastNonOkWins ==
    (NodeLoopDone /\ Total = Len(Listed)) =>
        /\ data.node_status =
              (IF NonOk(Len(Listed)) = {} THEN "OK" ELSE Listed[MaxOf(NonOk(Len(Listed)))])
        /\ (Listed = <<"OK", "OK", "OK">>) => data.node_status = "OK"
        /\ (Listed = <<"OK", "DEGRADED", "OK">>) => data.node_status = "DEGRADED"
        /\ (Listed = <<"FAILED", "DEGRADED">>) => data.node_status = "DEGRADED"
        /\ locals.system_status = data.node_status

\* the loop ran over [FAILED, DEGRADED] and gave "DEGRADED"
C14_Witness ==
    /\ NodeLoopDone
    /\ Listed = <<"FAILED", "DEGRADED">>
    /\ Total = 2
    /\ data.node_status = "DEGRADED"

\* C16 as stated: when the total is the number of listed nodes and some node
\* is non-OK, the result is the status of the first non-OK node of the list.
C16_FirstNonOkWins ==
    (NodeLoopDone /\ Total = Len(Listed) /\ NonOk(Total) # {}) =>
        data.node_status = Listed[MinOf(NonOk(Total))]

\* C16: when at least one of the nodes the loop visits (the first total
\* nodes of the list) is non-OK, the result is the status of the last of
\* them in iteration order.
C16_LastVisitedNonOkWins ==
    (NodeLoopDone /\ NonOk(Total) # {}) =>
        data.node_status = Listed[MaxOf(NonOk(Total))]

\* the loop visited DEGRADED then FAILED of [DEGRADED, FAILED, DEGRADED]
C16_Witness ==
    /\ NodeLoopDone
    /\ Listed = <<"DEGRADED", "FAILED", "DEGRADED">>
    /\ Total = 2
    /\ data.node_status = "FAILED"

\* ------------------------------------------ a conversion, run on its own
\* exponents at which a byte count in whole units leaves the range where
\* floats hold every integer quotient apart
BigExps == {22, 23, 24, 25, 30}

Divisor(unit) == IF unit = "GB" THEN GB ELSE MB

\* the whole units of the byte counts tried: small ones, and ones at and
\* just above a power of two
HiValues == (0..MaxHi) \cup {Pow2(e) + j : e \in BigExps, j \in 0..1}

\* the byte counts and byte rates a response can carry, each written as
\* hi * d + lo with d the divisor of its unit and 0 <= lo < d: up to MaxLo
\* bytes above a whole unit, and up to MaxLo + 1 bytes below the next
ConvInputs ==
    UNION {{[unit |-> u, hi |-> h, lo |-> l] :
                h \in HiValues,
                l \in (0..MaxLo) \cup {Divisor(u) - 1 - j : j \in 0..MaxLo}} :
           u \in {"GB", "MB"}}

\* generate_json holding one number of a decoded response body, before the
\* statement that converts it
InitConv ==
    /\ json = EmptyJson
    /\ session = Session
    /\ token = Token(1)
    /\ data = RubrikData
    /\ MAX_DATAPOINTS \in 1..MaxCap
    /\ pc = "convert"
    /\ reading = 1
    /\ \E b \in ConvInputs : locals = ("bytes" :> b)
    /\ calls = <<>>
    /\ pre = RubrikData
    /\ hist = <<>>
    /\ ncycles = 1

\* line 125 for a byte count (total) and line 202 for a byte rate (ingest)
Convert ==
    /\ pc = "convert"
    /\ pc' = "converted"
    /\ LET b == locals.bytes
       IN  IF b.unit = "GB"
           THEN /\ data' = [data EXCEPT !.total = IntOfTrueDiv(b.hi, b.lo, GB)]
                /\ UNCHANGED locals
           ELSE /\ locals' = ("ingest" :> IntOfTrueDiv(b.hi, b.lo, MB)) @@ locals
                /\ UNCHANGED data
    /\ UNCHANGED <<json, session, token, MAX_DATAPOINTS, reading, calls, pre, hist, ncycles>>

NextConv == Convert

SpecConv == InitConv /\ [][NextConv]_vars

\* what the conversion produced
Converted == IF locals.bytes.unit = "GB" THEN data.total ELSE locals.ingest

\* C15: the conversion of every non-negative byte count hi * d + lo, with
\* 0 <= lo < d, is its truncating integer quotient by d, which is hi; so
\* 5000000000 bytes give 5 and 2097152 bytes per second give 2.
C15_TruncatingDivision ==
    (pc = "converted") => Converted = FloorDiv(locals.bytes.hi, locals.bytes.lo, Divisor(locals.bytes.unit))

====
